---------------------------- MODULE Spec2Model ----------------------------
(* Evangelist (server.go): one HTTP request converting a PDF to JPEGs and  *)
(* uploading them to S3.  The handler `convert` runs connectToS3,          *)
(* fetchPDF, convertPDFToJPEGs (page count, partition, 2 goroutines, a     *)
(* WaitGroup) and uploadAllJPEGsToS3 (validation, partition, 10            *)
(* goroutines, a WaitGroup).                                               *)
(*                                                                         *)
(* Strings are sequences of tokens.  Every token is one character, except  *)
(* the fixed literals of the program ("/tmp/", ".jpg", "-small", "-large") *)
(* and of fmt's error texts, which no other token sequence can spell.      *)
EXTENDS Integers, Sequences, FiniteSets, TLC

(***************************************************************************)
(* Bounds of the model                                                     *)
(***************************************************************************)
\* largest page count the rasterizer reports in Spec
MaxPages == 2
\* largest number of external calls that fail in one run of Spec
MaxFaults == 1
\* largest total handed to the partition loop in SpecPlan
MaxTotal == 24
\* largest worker count handed to the partition loop in SpecPlan
MaxWorkers == 10
\* longest remote template handed to the substitution in SpecSubst
MaxTemplateLen == 4
\* largest page number handed to the substitution in SpecSubst
MaxPageNum == 11
\* length of the random scratch prefix (50 in the program)
PrefixLen == 1
\* largest page count the rasterizer reports in SpecFair
MaxFairPages == 2
\* largest index into ALPHA_NUMERIC of the bytes rand.Read delivers to a
\* request served alone, the requests of AnyByteRequests apart
MaxRandomIndex == 0
\* the same for two requests served at the same time, in SpecPair
MaxPairIndex == 1

(***************************************************************************)
(* Program constants                                                       *)
(***************************************************************************)
NUM_WORKERS_CONVERT == 2
NUM_WORKERS_UPLOAD == 10

Variants == {"normal", "small", "large"}
TemplateKeys == {"s3JPEGPath", "s3SmallJPEGPath", "s3LargeJPEGPath"}
FormKeys == TemplateKeys \cup {"s3PDFPath"}

(***************************************************************************)
(* strconv / strings / fmt                                                 *)
(***************************************************************************)
Digits == <<"0", "1", "2", "3", "4", "5", "6", "7", "8", "9">>

DigitValue(c) == CHOOSE i \in 0..9 : Digits[i + 1] = c

IsDigit(c) == \E i \in 1..10 : Digits[i] = c

RECURSIVE Itoa(_)
\* decimal text of an int, as fmt's %d and strconv print it
Itoa(n) ==
  IF n < 0 THEN <<"-">> \o Itoa(-n)
  ELSE IF n < 10 THEN <<Digits[n + 1]>>
  ELSE Itoa(n \div 10) \o <<Digits[(n % 10) + 1]>>

RECURSIVE Trim(_, _)
\* strings.Trim(s, cutset) for a one-character cutset
Trim(s, c) ==
  IF s = <<>> THEN s
  ELSE IF Head(s) = c THEN Trim(Tail(s), c)
  ELSE IF s[Len(s)] = c THEN Trim(SubSeq(s, 1, Len(s) - 1), c)
  ELSE s

RECURSIVE DigitsValue(_, _)
DigitsValue(s, acc) ==
  IF s = <<>> THEN acc ELSE DigitsValue(Tail(s), acc * 10 + DigitValue(Head(s)))

\* strconv.ParseInt(s, 10, 0): [ok, value]; an optional sign, then one or
\* more decimal digits, anything else is a syntax error
ParseInt(s) ==
  LET signed == s # <<>> /\ Head(s) \in {"+", "-"}
      body == IF signed THEN Tail(s) ELSE s
  IN IF body = <<>> \/ \E i \in 1..Len(body) : ~IsDigit(body[i])
     THEN [ok |-> FALSE, value |-> 0]
     ELSE [ok |-> TRUE,
           value |-> IF signed /\ Head(s) = "-" THEN -DigitsValue(body, 0)
                     ELSE DigitsValue(body, 0)]

\* strings.Contains(s, "%d")
ContainsPlaceholder(s) ==
  \E i \in 1..(Len(s) - 1) : s[i] = "%" /\ s[i + 1] = "d"

RECURSIVE Printf(_, _, _)
\* fmt's doPrintf over the format `f` with the one int operand `n`;
\* `used` tells whether the operand has been consumed.  The formats of the
\* model carry no flags, widths, precisions or argument indexes, and their
\* verbs are d, T and letters that are no verb for an int.
Printf(f, n, used) ==
  IF f = <<>> THEN
    IF used THEN <<>> ELSE <<"%!(EXTRA int=">> \o Itoa(n) \o <<")">>
  ELSE IF Head(f) # "%" THEN <<Head(f)>> \o Printf(Tail(f), n, used)
  ELSE IF Len(f) = 1 THEN <<"%!(NOVERB)">> \o Printf(<<>>, n, used)
  ELSE IF f[2] = "%" THEN <<"%">> \o Printf(SubSeq(f, 3, Len(f)), n, used)
  ELSE IF used THEN
    <<"%!", f[2], "(MISSING)">> \o Printf(SubSeq(f, 3, Len(f)), n, TRUE)
  ELSE IF f[2] = "d" THEN Itoa(n) \o Printf(SubSeq(f, 3, Len(f)), n, TRUE)
  ELSE IF f[2] = "T" THEN <<"i", "n", "t">> \o Printf(SubSeq(f, 3, Len(f)), n, TRUE)
  ELSE <<"%!", f[2], "(int=">> \o Itoa(n) \o <<")">>
         \o Printf(SubSeq(f, 3, Len(f)), n, TRUE)

\* fmt.Sprintf(format, pageNum)
Sprintf(f, n) == Printf(f, n, FALSE)

(***************************************************************************)
(* The partition loop of convertPDFToJPEGs and uploadAllJPEGsToS3          *)
(***************************************************************************)
\* a quotient rounded down, then one added
NumPagesPerWorkerFloorPlusOne(numPages, numWorkers) == (numPages \div numWorkers) + 1

\* int(math.Ceil(float64(numPages) / float64(numWorkers)))
NumPagesPerWorker(numPages, numWorkers) == -((-numPages) \div numWorkers)

\* the range end without the clamp of lines 180-182 and 267-269
LastPageUnclamped(firstPage, numPagesPerWorker, numPages) ==
  firstPage + numPagesPerWorker - 1

\* a range end one page too far, so that neighbouring ranges share a page
LastPageOverlapping(firstPage, numPagesPerWorker, numPages) ==
  IF firstPage + numPagesPerWorker > numPages THEN numPages
  ELSE firstPage + numPagesPerWorker

\* lastPage := firstPage + numPagesPerWorker - 1, clamped to numPages
LastPage(firstPage, numPagesPerWorker, numPages) ==
  IF firstPage + numPagesPerWorker - 1 > numPages THEN numPages
  ELSE firstPage + numPagesPerWorker - 1

\* the loop's increment
NextFirstPage(firstPage, numPagesPerWorker) == firstPage + numPagesPerWorker


(***************************************************************************)
(* State                                                                   *)
(***************************************************************************)
VARIABLES
  method,        \* request.Method
  form,          \* request.Form: present keys -> list of values
  gsResult,      \* what the page-count run of gs gives: [ok, out]
  failing,       \* the external calls that fail when made: {<<kind, page, variant>>}
  pc,            \* where the handler `convert` stands
  response,      \* what has been written to the http.ResponseWriter
  storeReads,    \* bucket.GetReader calls made
  jpegPrefix,    \* the random prefix of the scratch files
  numPages,      \* the page count held by the running coordinator
  numPagesPerWorker,
  firstPage,     \* loop variable of the running partition loop
  convWg,        \* WaitGroup counter of convertPDFToJPEGs
  upWg,          \* WaitGroup counter of uploadAllJPEGsToS3
  convWorkers,   \* goroutines running convertPagesToJPEGs, in spawn order
  upWorkers,     \* goroutines running uploadJPEGRangeToS3, in spawn order
  s3Paths,       \* validated remote templates, per variant
  files,         \* local JPEG files that exist (paths)
  store,         \* the bucket: remote path -> [page, variant] of the JPEG it holds
  outcome,       \* every external call made so far -> how it ended
  plan,          \* a stand-alone run of the partition loop
  hanging,       \* the external calls that never return when made
  subst,         \* a stand-alone run of the path substitution
  other,         \* the request served at the same time, if any: [id, locals]
  entropy        \* the bytes rand.Read can deliver

vars == <<method, form, gsResult, failing, pc, response, storeReads,
          jpegPrefix, numPages, numPagesPerWorker, firstPage, convWg, upWg,
          convWorkers, upWorkers, s3Paths, files, store, outcome, plan,
          hanging, subst, other, entropy>>

requestVars == <<method, form, gsResult, failing, hanging, entropy>>
planIdle == [total |-> 0, workerCount |-> 1, perWorker |-> 0, firstPage |-> 1,
             ranges |-> <<>>, done |-> TRUE]
otherIdle == [id |-> 0]
substIdle == [template |-> <<>>, local |-> FALSE, pages |-> <<>>, valid |-> FALSE,
              paths |-> <<>>, at |-> "done"]

(***************************************************************************)
(* Scratch paths (convert, lines 369-372)                                  *)
(***************************************************************************)
\* ALPHA_NUMERIC (line 30)
AlphaNumeric ==
  <<"a", "b", "c", "d", "e", "f", "g", "h", "i", "j", "k", "l", "m", "n", "o",
    "p", "q", "r", "s", "t", "u", "v", "w", "x", "y", "z",
    "0", "1", "2", "3", "4", "5", "6", "7", "8", "9">>

\* generateRandomString(length) when rand.Read fills the buffer with
\* randomBytes: each byte indexes ALPHA_NUMERIC modulo its length
generateRandomString(length, randomBytes) ==
  [i \in 1..length |-> AlphaNumeric[(randomBytes[i] % Len(AlphaNumeric)) + 1]]

\* the values of a byte
Bytes == 0..255

\* the bytes that index ALPHA_NUMERIC at most at maxIndex: 8 or 7 bytes for
\* each character
BytesUpTo(maxIndex) == {b \in Bytes : b % Len(AlphaNumeric) <= maxIndex}

\* the bytes rand.Read delivers while one request is served
SoloBytes == BytesUpTo(MaxRandomIndex)

\* and while two requests are served: their prefixes may differ or coincide
PairBytes == BytesUpTo(MaxPairIndex)

\* what rand.Read can put into a buffer of the given length
RandRead(length) == [1..length -> entropy]

\* local template of a variant: "/tmp/<prefix>%d.jpg", "...%d-small.jpg",
\* "...%d-large.jpg"
LocalTemplate(prefix, variant) ==
  <<"/tmp/">> \o prefix \o <<"%", "d">>
    \o (CASE variant = "normal" -> <<>>
          [] variant = "small" -> <<"-small">>
          [] variant = "large" -> <<"-large">>)
    \o <<".jpg">>

LocalPath(variant, pageNum) == Sprintf(LocalTemplate(jpegPrefix, variant), pageNum)

\* the form key holding the remote template of a variant
KeyOf(variant) ==
  CASE variant = "normal" -> "s3JPEGPath"
    [] variant = "small" -> "s3SmallJPEGPath"
    [] variant = "large" -> "s3LargeJPEGPath"

(***************************************************************************)
(* Requests the model runs                                                 *)
(***************************************************************************)
PdfValue == <<"p">>
NormalT == <<"n", "%", "d">>
SmallT == <<"s", "%", "d">>
LargeT == <<"l", "%", "d">>

GoodForm ==
  [k \in FormKeys |->
     CASE k = "s3PDFPath" -> <<PdfValue>>
       [] k = "s3JPEGPath" -> <<NormalT>>
       [] k = "s3SmallJPEGPath" -> <<SmallT>>
       [] k = "s3LargeJPEGPath" -> <<LargeT>>]

\* value lists a template key may carry; <<>> stands for "key absent"
KeyOptions(k) ==
  CASE k = "s3PDFPath" -> {<<PdfValue>>}
    [] k = "s3JPEGPath" -> {<<>>, <<NormalT>>, <<NormalT, NormalT>>, <<<<"n">>>>}
    [] k = "s3SmallJPEGPath" ->
         {<<>>, <<SmallT>>, <<NormalT>>, <<SmallT, NormalT>>, <<<<"s">>>>}
    [] k = "s3LargeJPEGPath" ->
         {<<>>, <<LargeT>>, <<<<"l", "%", "%", "d">>>>, <<LargeT, LargeT>>,
          <<<<"l">>>>}

\* a form as Go holds it: only the keys that were sent are in the map
MkForm(f) == [k \in {x \in FormKeys : f[x] # <<>>} |-> f[k]]

Forms == {MkForm(f) : f \in {g \in [FormKeys -> UNION {KeyOptions(k) : k \in FormKeys}] :
                               \A k \in FormKeys : g[k] \in KeyOptions(k)}}

GsPages(n) == [ok |-> TRUE, out |-> Itoa(n) \o <<"\n">>]

\* the external calls a run over n pages can make
Calls(n) ==
  {<<"gs", p, "large">> : p \in 1..n}
    \cup {<<"resize", p, v>> : p \in 1..n, v \in {"normal", "small"}}
    \cup {<<"put", p, v>> : p \in 1..n, v \in Variants}

RECURSIVE Faults(_, _)
\* the sets of at most k failing calls
Faults(calls, k) ==
  IF k = 0 THEN {{}}
  ELSE LET fewer == Faults(calls, k - 1)
       IN fewer \cup {s \cup {c} : s \in fewer, c \in calls}

Request(m, f, g, x) == [method |-> m, form |-> f, gsResult |-> g, failing |-> x]

\* every shape of form, every page count, no failing call
FormRequests ==
  {Request("POST", f, GsPages(n), {}) : f \in Forms, n \in 0..MaxPages}

\* requests that end before the conversion starts
EarlyRequests ==
  {Request("GET", GoodForm, GsPages(1), {}),
   Request("POST", MkForm([GoodForm EXCEPT !["s3PDFPath"] = <<>>]), GsPages(1), {}),
   Request("POST", [GoodForm EXCEPT !["s3PDFPath"] = <<PdfValue, PdfValue>>],
           GsPages(1), {}),
   Request("POST", GoodForm, [ok |-> FALSE, out |-> <<>>], {}),
   Request("POST", GoodForm, [ok |-> TRUE, out |-> <<"x", "\n">>], {}),
   Request("POST", GoodForm, [ok |-> TRUE, out |-> <<>>], {}),
   Request("POST", GoodForm, [ok |-> TRUE, out |-> <<"-", "1", "\n">>], {})}

\* a well-formed request: every set of at most MaxFaults failing calls over
\* fewer than MaxPages pages, every failing call over MaxPages pages
FaultRequests ==
  UNION {{Request("POST", GoodForm, GsPages(n), x) :
            x \in Faults(Calls(n), IF n < MaxPages THEN MaxFaults ELSE 1)} :
           n \in 1..MaxPages}

\* the smallest page count that gives a conversion worker two pages
SplitPages == NUM_WORKERS_CONVERT + 1

\* runs over SplitPages pages with at most one failing call
SplitRequests ==
  {Request("POST", GoodForm, GsPages(SplitPages), x) : x \in Faults(Calls(SplitPages), 1)}

\* a conversion failure together with an upload failure, over SplitPages pages
DoubleFaultRequests ==
  {Request("POST", GoodForm, GsPages(SplitPages), {c, u}) :
     c \in {<<"gs", 2, "large">>, <<"resize", 1, "normal">>, <<"resize", 1, "small">>},
     u \in {<<"put", 1, "large">>, <<"put", 3, "normal">>}}

\* two well-formed templates that resolve to one path for different pages:
\* "%d1" for page 2 and "2%d" for page 1 are both "21"
CrossForm ==
  [GoodForm EXCEPT !["s3JPEGPath"] = <<<<"%", "d", "1">>>>,
                   !["s3SmallJPEGPath"] = <<<<"2", "%", "d">>>>]

CrossRequests == {Request("POST", CrossForm, GsPages(2), {})}

\* the requests served with any byte from rand.Read: one whose page count
\* fails and one over no page
AnyByteRequests ==
  {Request("POST", GoodForm, [ok |-> FALSE, out |-> <<>>], {}),
   Request("POST", GoodForm, GsPages(0), {})}

Requests ==
  FormRequests \cup EarlyRequests \cup FaultRequests \cup SplitRequests
    \cup DoubleFaultRequests
    \cup CrossRequests

\* the smallest page count that gives an upload worker two pages
WidePages == NUM_WORKERS_UPLOAD + 1

\* runs over WidePages pages in which most upload workers return on their
\* first call: two rasterizations fail, a worker fails on its first page and
\* another stores its whole range; a resize and an upload of each variant
\* fail; after two failed rasterizations only page 1 is there to upload
WideRequests ==
  {Request("POST", GoodForm, GsPages(WidePages), x) :
     x \in {{<<"gs", 3, "large">>, <<"gs", 9, "large">>, <<"put", 1, "small">>},
            {<<"resize", 7, "normal">>, <<"put", 1, "normal">>,
             <<"put", 3, "normal">>, <<"put", 5, "large">>, <<"put", 9, "small">>,
             <<"put", 11, "normal">>},
            {<<"gs", 2, "large">>, <<"gs", 7, "large">>}}}

\* the state convert starts in for request r, with the set h of calls that
\* never return, next to the request o served at the same time
InitServing(r, h, o) ==
  /\ method = r.method
  /\ form = r.form
  /\ gsResult = r.gsResult
  /\ failing = r.failing
  /\ pc = "start"
  /\ response = <<>>
  /\ storeReads = 0
  /\ jpegPrefix = <<>>
  /\ numPages = 0
  /\ numPagesPerWorker = 0
  /\ firstPage = 1
  /\ convWg = 0
  /\ upWg = 0
  /\ convWorkers = <<>>
  /\ upWorkers = <<>>
  /\ s3Paths = <<>>
  /\ files = {}
  /\ store = <<>>
  /\ outcome = <<>>
  /\ plan = planIdle
  /\ hanging = h
  /\ subst = substIdle
  /\ other = o
  /\ entropy = IF o.id # 0 THEN PairBytes
               ELSE IF r \in AnyByteRequests THEN Bytes
               ELSE SoloBytes

InitHanging(r, h) == InitServing(r, h, otherIdle)

InitRun(r) == InitHanging(r, {})

Init == \E r \in Requests : InitRun(r)


(***************************************************************************)
(* Validation of the remote templates (uploadAllJPEGsToS3, lines 109-168)  *)
(***************************************************************************)
\* a validation that does not count the values of a key
ValidationErrorUncounted(f) ==
  IF "s3JPEGPath" \notin DOMAIN f THEN "Must specify a JPEG path"
  ELSE IF "s3SmallJPEGPath" \notin DOMAIN f THEN "Must specify a small JPEG path"
  ELSE IF "s3LargeJPEGPath" \notin DOMAIN f THEN "Must specify a large JPEG path"
  ELSE IF ~ContainsPlaceholder(f["s3JPEGPath"][1]) THEN "s3JPEGPath without %d"
  ELSE IF ~ContainsPlaceholder(f["s3SmallJPEGPath"][1])
  THEN "s3SmallJPEGPath without %d"
  ELSE IF ~ContainsPlaceholder(f["s3LargeJPEGPath"][1])
  THEN "s3LargeJPEGPath without %d"
  ELSE ""

\* lines 109-168: the error the validation returns, "" for none
ValidationError(f) ==
  IF "s3JPEGPath" \notin DOMAIN f THEN "Must specify a JPEG path"
  ELSE IF "s3SmallJPEGPath" \notin DOMAIN f THEN "Must specify a small JPEG path"
  ELSE IF "s3LargeJPEGPath" \notin DOMAIN f THEN "Must specify a large JPEG path"
  ELSE IF Len(f["s3JPEGPath"]) # 1 THEN "Must specify exactly one s3JPEGPath"
  ELSE IF Len(f["s3SmallJPEGPath"]) # 1 THEN "Must specify exactly one s3SmallJPEGPath"
  ELSE IF Len(f["s3LargeJPEGPath"]) # 1 THEN "Must specify exactly one s3LargeJPEGPath"
  ELSE IF ~ContainsPlaceholder(f["s3JPEGPath"][1]) THEN "s3JPEGPath without %d"
  ELSE IF ~ContainsPlaceholder(f["s3SmallJPEGPath"][1])
  THEN "s3SmallJPEGPath without %d"
  ELSE IF ~ContainsPlaceholder(f["s3LargeJPEGPath"][1])
  THEN "s3LargeJPEGPath without %d"
  ELSE ""


(***************************************************************************)
(* The handler `convert` up to the conversion                              *)
(***************************************************************************)
\* handleError(err, writer) with a non-nil err: a 500 response, then return
Fail(msg) ==
  /\ response' = <<"500", msg>>
  /\ pc' = "returned"

\* convert, lines 357-360
CheckMethod ==
  /\ pc = "start"
  /\ IF method # "POST"
     THEN /\ response' = <<"200", "Only POST requests are supported.">>
          /\ pc' = "returned"
     ELSE /\ pc' = "connect"
          /\ UNCHANGED response
  /\ UNCHANGED <<requestVars, storeReads, jpegPrefix, numPages, numPagesPerWorker,
                 firstPage, convWg, upWg, convWorkers, upWorkers, s3Paths, files,
                 store, outcome, plan, subst, other>>

\* convert, lines 362-363: connectToS3 fails when the credentials are not in
\* the environment or no connection object comes back
ConnectToS3 ==
  /\ pc = "connect"
  /\ \E ok \in BOOLEAN :
       IF ok THEN pc' = "fetch" /\ UNCHANGED response
       ELSE Fail("connectToS3")
  /\ UNCHANGED <<requestVars, storeReads, jpegPrefix, numPages, numPagesPerWorker,
                 firstPage, convWg, upWg, convWorkers, upWorkers, s3Paths, files,
                 store, outcome, plan, subst, other>>

\* the calls of fetchPDF that wait for the network
ParseCall == <<"parse", 0, "form">>
GetCall == <<"get", 0, "pdf">>
CopyCall == <<"copy", 0, "pdf">>

\* fetchPDF, lines 296-309: request.ParseMultipartForm reads the body of the
\* request, then the key s3PDFPath is checked
ParseForm ==
  /\ pc = "fetch"
  /\ ParseCall \notin hanging
  /\ \E parsed \in BOOLEAN :
       IF ~parsed
       THEN Fail("ParseMultipartForm")
       ELSE IF "s3PDFPath" \notin DOMAIN form
       THEN Fail("Must specify a PDF to convert")
       ELSE IF Len(form["s3PDFPath"]) # 1
       THEN Fail("Must specify exactly one S3 PDF path")
       ELSE pc' = "getReader" /\ UNCHANGED response
  /\ UNCHANGED storeReads
  /\ UNCHANGED <<requestVars, jpegPrefix, numPages, numPagesPerWorker,
                 firstPage, convWg, upWg, convWorkers, upWorkers, s3Paths, files,
                 store, outcome, plan, subst, other>>

\* fetchPDF, lines 312-317: bucket.GetReader asks the bucket for the PDF
GetReader ==
  /\ pc = "getReader"
  /\ GetCall \notin hanging
  /\ storeReads' = storeReads + 1
  /\ \E got \in BOOLEAN :
       IF ~got THEN Fail("GetReader")
       ELSE pc' = "create" /\ UNCHANGED response
  /\ UNCHANGED <<requestVars, jpegPrefix, numPages, numPagesPerWorker,
                 firstPage, convWg, upWg, convWorkers, upWorkers, s3Paths, files,
                 store, outcome, plan, subst, other>>

\* fetchPDF, lines 320-324: os.Create of the scratch file of the PDF
CreatePDF ==
  /\ pc = "create"
  /\ \E created \in BOOLEAN :
       IF ~created THEN Fail("Create")
       ELSE pc' = "copy" /\ UNCHANGED response
  /\ UNCHANGED storeReads
  /\ UNCHANGED <<requestVars, jpegPrefix, numPages, numPagesPerWorker,
                 firstPage, convWg, upWg, convWorkers, upWorkers, s3Paths, files,
                 store, outcome, plan, subst, other>>

\* fetchPDF, lines 326-329: io.Copy reads the body of the PDF from the bucket
CopyPDF ==
  /\ pc = "copy"
  /\ CopyCall \notin hanging
  /\ \E copied \in BOOLEAN :
       IF ~copied THEN Fail("copy")
       ELSE pc' = "prefix" /\ UNCHANGED response
  /\ UNCHANGED storeReads
  /\ UNCHANGED <<requestVars, jpegPrefix, numPages, numPagesPerWorker,
                 firstPage, convWg, upWg, convWorkers, upWorkers, s3Paths, files,
                 store, outcome, plan, subst, other>>

\* fetchPDF as a whole
FetchPDF == ParseForm \/ GetReader \/ CreatePDF \/ CopyPDF

\* convert, lines 369-372
MakePrefix ==
  /\ pc = "prefix"
  /\ \E randomBytes \in RandRead(PrefixLen) :
       jpegPrefix' = generateRandomString(PrefixLen, randomBytes)
  /\ pc' = "count"
  /\ UNCHANGED <<requestVars, response, storeReads, numPages, numPagesPerWorker,
                 firstPage, convWg, upWg, convWorkers, upWorkers, s3Paths, files,
                 store, outcome, plan, subst, other>>

\* the page-count run of gs, as an external call
CountCall == <<"count", 0, "pdf">>

\* a page count whose error is not looked at: the -1 that comes with the
\* error is taken for the count
getNumPagesErrorIgnored ==
  IF ~gsResult.ok THEN [ok |-> TRUE, value |-> -1]
  ELSE LET parsed == ParseInt(Trim(gsResult.out, "\n"))
       IN IF parsed.ok THEN parsed ELSE [ok |-> TRUE, value |-> -1]

\* getNumPages: [ok, value]
getNumPages ==
  IF ~gsResult.ok THEN [ok |-> FALSE, value |-> -1]
  ELSE LET parsed == ParseInt(Trim(gsResult.out, "\n"))
       IN IF parsed.ok THEN parsed ELSE [ok |-> FALSE, value |-> -1]

\* a handler that validates the remote templates before it counts the pages
CountPagesAfterValidation ==
  /\ pc = "count"
  /\ IF ValidationError(form) # ""
     THEN /\ Fail(ValidationError(form))
          /\ UNCHANGED <<numPages, numPagesPerWorker, firstPage>>
     ELSE IF ~getNumPages.ok
     THEN /\ Fail("getNumPages")
          /\ UNCHANGED <<numPages, numPagesPerWorker, firstPage>>
     ELSE /\ numPages' = getNumPages.value
          /\ numPagesPerWorker' = NumPagesPerWorker(getNumPages.value, NUM_WORKERS_CONVERT)
          /\ firstPage' = 1
          /\ pc' = "convSpawn"
          /\ UNCHANGED response
  /\ UNCHANGED <<requestVars, storeReads, jpegPrefix, convWg, upWg, convWorkers,
                 upWorkers, s3Paths, files, store, outcome, plan, subst, other>>

\* convertPDFToJPEGs, lines 253-260; an error goes back to convert, which
\* answers 500 (line 376); while cmd.Output() has not returned nothing follows
CountPages ==
  /\ pc = "count"
  /\ CountCall \notin hanging
  /\ IF ~getNumPages.ok
     THEN /\ Fail("getNumPages")
          /\ UNCHANGED <<numPages, numPagesPerWorker, firstPage>>
     ELSE /\ numPages' = getNumPages.value
          /\ numPagesPerWorker' = NumPagesPerWorker(getNumPages.value, NUM_WORKERS_CONVERT)
          /\ firstPage' = 1
          /\ pc' = "convSpawn"
          /\ UNCHANGED response
  /\ UNCHANGED <<requestVars, storeReads, jpegPrefix, convWg, upWg, convWorkers,
                 upWorkers, s3Paths, files, store, outcome, plan, subst, other>>


(***************************************************************************)
(* convertPDFToJPEGs and its workers                                       *)
(***************************************************************************)
Record(call, ok) ==
  [c \in DOMAIN outcome \cup {call} |->
     IF c = call THEN (IF ok THEN "ok" ELSE "fail") ELSE outcome[c]]

Update(seq, i, rec) == [seq EXCEPT ![i] = rec]

\* a loop that tests its condition after the body: one worker is spawned
\* whatever the page count
ConvSpawnAtLeastOnce ==
  /\ pc = "convSpawn"
  /\ IF firstPage <= numPages \/ convWorkers = <<>>
     THEN /\ convWg' = convWg + 1
          /\ convWorkers' = Append(convWorkers,
               [firstPage |-> firstPage,
                lastPage |-> LastPage(firstPage, numPagesPerWorker, numPages),
                pageNum |-> firstPage, at |-> "gs", err |-> FALSE])
          /\ firstPage' = NextFirstPage(firstPage, numPagesPerWorker)
          /\ UNCHANGED pc
     ELSE /\ pc' = "convWait"
          /\ UNCHANGED <<convWg, convWorkers, firstPage>>
  /\ UNCHANGED <<requestVars, response, storeReads, jpegPrefix, numPages,
                 numPagesPerWorker, upWg, upWorkers, s3Paths, files, store,
                 outcome, plan, subst, other>>

\* lines 262-273: one turn of the loop is wg.Add(1) and the go statement;
\* leaving the loop reaches wg.Wait()
ConvSpawn ==
  /\ pc = "convSpawn"
  /\ IF firstPage <= numPages
     THEN /\ convWg' = convWg + 1
          /\ convWorkers' = Append(convWorkers,
               [firstPage |-> firstPage,
                lastPage |-> LastPage(firstPage, numPagesPerWorker, numPages),
                pageNum |-> firstPage, at |-> "gs", err |-> FALSE])
          /\ firstPage' = NextFirstPage(firstPage, numPagesPerWorker)
          /\ UNCHANGED pc
     ELSE /\ pc' = "convWait"
          /\ UNCHANGED <<convWg, convWorkers, firstPage>>
  /\ UNCHANGED <<requestVars, response, storeReads, jpegPrefix, numPages,
                 numPagesPerWorker, upWg, upWorkers, s3Paths, files, store,
                 outcome, plan, subst, other>>

\* the err that lines 234 and 240 test after a resize: resizeAndSaveImage's
\* result is dropped, so it is still the rasterizer's
ErrAfterResize(err, resizeOk) == err

\* where the worker goes after the last step of a page (line 211)
AfterPage(w) ==
  IF w.pageNum + 1 <= w.lastPage
  THEN [w EXCEPT !.pageNum = w.pageNum + 1, !.at = "gs"]
  ELSE [w EXCEPT !.pageNum = w.pageNum + 1, !.at = "exit"]

\* a worker that leaves its function runs the deferred wg.Done() (lines 84
\* and 208) and is gone
Returned(w) == IF w.at = "exit" THEN [w EXCEPT !.at = "done"] ELSE w

\* wg.Done() called in the loop body instead of deferred
DoneInLoop(counter, w) == IF counter > 0 THEN counter - 1 ELSE counter

\* a worker that returns without wg.Done()
DoneForgotten(counter, w) == counter

\* a wg.Done() that is not deferred and is skipped by the early returns
DoneOnCompletionOnly(counter, w) ==
  IF w.at = "exit" /\ ~w.err THEN counter - 1 ELSE counter

\* the WaitGroup counter after a step that took the worker to `w`
Done(counter, w) == IF w.at = "exit" THEN counter - 1 ELSE counter

\* a worker that resizes to small before it resizes to normal
AfterConvertSmallFirst(w, ok) ==
  CASE w.at = "gs" -> [w EXCEPT !.err = ~ok, !.at = IF ok THEN "small" ELSE "exit"]
    [] w.at = "small" ->
         [w EXCEPT !.err = ErrAfterResize(w.err, ok),
                   !.at = IF ErrAfterResize(w.err, ok) THEN "exit" ELSE "normal"]
    [] w.at = "normal" ->
         IF ErrAfterResize(w.err, ok)
         THEN [w EXCEPT !.err = ErrAfterResize(w.err, ok), !.at = "exit"]
         ELSE AfterPage(w)

\* the worker after the external invocation it stands at has ended with `ok`
\* (convertPagesToJPEGs, lines 226-243)
AfterConvert(w, ok) ==
  CASE w.at = "gs" -> [w EXCEPT !.err = ~ok, !.at = IF ok THEN "normal" ELSE "exit"]
    [] w.at = "normal" ->
         [w EXCEPT !.err = ErrAfterResize(w.err, ok),
                   !.at = IF ErrAfterResize(w.err, ok) THEN "exit" ELSE "small"]
    [] w.at = "small" ->
         IF ErrAfterResize(w.err, ok)
         THEN [w EXCEPT !.err = ErrAfterResize(w.err, ok), !.at = "exit"]
         ELSE AfterPage(w)

\* the file an invocation reads, <<>> for the rasterizer (which reads the PDF)
SourceOf(at, p) ==
  CASE at = "gs" -> <<>>
    [] at = "normal" -> LocalPath("large", p)
    [] at = "small" -> LocalPath("normal", p)

\* the variant an invocation writes
TargetOf(at) == IF at = "gs" THEN "large" ELSE at

ConvCall(at, p) == <<IF at = "gs" THEN "gs" ELSE "resize", p, TargetOf(at)>>

\* convertPagesToJPEGs, lines 208-244: one external invocation per step (gs,
\* convert -resize to normal, convert -resize to small); a run of convert
\* whose source file is missing fails; the step is the return of cmd.Run(),
\* which an invocation that hangs never reaches
ConvStep(i) ==
  /\ convWorkers[i].at \in {"gs", "normal", "small"}
  /\ ConvCall(convWorkers[i].at, convWorkers[i].pageNum) \notin hanging
  /\ LET w == convWorkers[i]
         p == w.pageNum
         ok == /\ ConvCall(w.at, p) \notin failing
               /\ (SourceOf(w.at, p) = <<>> \/ SourceOf(w.at, p) \in files)
     IN /\ outcome' = Record(ConvCall(w.at, p), ok)
        /\ files' = IF ok THEN files \cup {LocalPath(TargetOf(w.at), p)} ELSE files
        /\ convWorkers' = Update(convWorkers, i, Returned(AfterConvert(w, ok)))
        /\ convWg' = Done(convWg, AfterConvert(w, ok))
  /\ UNCHANGED <<requestVars, pc, response, storeReads, jpegPrefix, numPages,
                 numPagesPerWorker, firstPage, upWg, upWorkers, s3Paths,
                 store, plan, subst, other>>

\* a Wait that does not block
WaitReturnsAtOnce(counter) == TRUE

\* sync.WaitGroup.Wait returns when the counter is zero
WaitReturns(counter) == counter = 0

\* lines 275-276, then convert's line 376: the error returned is the page
\* count's, nil here
ConvWait ==
  /\ pc = "convWait"
  /\ WaitReturns(convWg)
  /\ pc' = "validate"
  /\ UNCHANGED <<requestVars, response, storeReads, jpegPrefix, numPages,
                 numPagesPerWorker, firstPage, convWg, upWg, convWorkers,
                 upWorkers, s3Paths, files, store, outcome, plan, subst, other>>

(***************************************************************************)
(* uploadAllJPEGsToS3 and its workers                                      *)
(***************************************************************************)
\* lines 109-174; an error goes back to convert, which answers 500 (line 380)
Validate ==
  /\ pc = "validate"
  /\ IF ValidationError(form) # ""
     THEN /\ Fail(ValidationError(form))
          /\ UNCHANGED <<s3Paths, numPagesPerWorker, firstPage>>
     ELSE /\ s3Paths' = [v \in Variants |-> form[KeyOf(v)][1]]
          /\ numPagesPerWorker' = NumPagesPerWorker(numPages, NUM_WORKERS_UPLOAD)
          /\ firstPage' = 1
          /\ pc' = "upSpawn"
          /\ UNCHANGED response
  /\ UNCHANGED <<requestVars, storeReads, jpegPrefix, numPages, convWg, upWg,
                 convWorkers, upWorkers, files, store, outcome, plan, subst, other>>

\* lines 175-186
UpSpawn ==
  /\ pc = "upSpawn"
  /\ IF firstPage <= numPages
     THEN /\ upWg' = upWg + 1
          /\ upWorkers' = Append(upWorkers,
               [firstPage |-> firstPage,
                lastPage |-> LastPage(firstPage, numPagesPerWorker, numPages),
                pageNum |-> firstPage, at |-> "normal", opened |-> FALSE,
                err |-> FALSE])
          /\ firstPage' = NextFirstPage(firstPage, numPagesPerWorker)
          /\ UNCHANGED pc
     ELSE /\ pc' = "upWait"
          /\ UNCHANGED <<upWg, upWorkers, firstPage>>
  /\ UNCHANGED <<requestVars, response, storeReads, jpegPrefix, numPages,
                 numPagesPerWorker, convWg, convWorkers, s3Paths, files, store,
                 outcome, plan, subst, other>>

\* a bucket that keeps what a path held before
PutReaderKeepingFirst(path, page, variant) ==
  IF path \in DOMAIN store THEN store
  ELSE [x \in DOMAIN store \cup {path} |->
          IF x = path THEN [page |-> page, variant |-> variant] ELSE store[x]]

\* the bucket after PutReader(path, ...) of the local JPEG of (page, variant)
PutReader(path, page, variant) ==
  [x \in DOMAIN store \cup {path} |->
     IF x = path THEN [page |-> page, variant |-> variant] ELSE store[x]]

\* a worker that forgets the large variant
AfterUploadSkippingLarge(w, ok) ==
  IF ~ok THEN [w EXCEPT !.err = TRUE, !.at = "exit"]
  ELSE IF w.at = "normal" THEN [w EXCEPT !.at = "small"]
  ELSE IF w.pageNum + 1 <= w.lastPage
  THEN [w EXCEPT !.pageNum = w.pageNum + 1, !.at = "normal"]
  ELSE [w EXCEPT !.pageNum = w.pageNum + 1, !.at = "exit"]

\* a worker that notes the error and carries on
AfterUploadCarryingOn(w, ok) ==
  IF w.at = "normal" THEN [w EXCEPT !.err = w.err \/ ~ok, !.at = "small"]
  ELSE IF w.at = "small" THEN [w EXCEPT !.err = w.err \/ ~ok, !.at = "large"]
  ELSE IF w.pageNum + 1 <= w.lastPage
  THEN [w EXCEPT !.err = w.err \/ ~ok, !.pageNum = w.pageNum + 1, !.at = "normal"]
  ELSE [w EXCEPT !.err = w.err \/ ~ok, !.pageNum = w.pageNum + 1, !.at = "exit"]

\* a worker that uploads the large variant before the small one
AfterUploadLargeBeforeSmall(w, ok) ==
  IF ~ok THEN [w EXCEPT !.err = TRUE, !.at = "exit"]
  ELSE IF w.at = "normal" THEN [w EXCEPT !.at = "large"]
  ELSE IF w.at = "large" THEN [w EXCEPT !.at = "small"]
  ELSE IF w.pageNum + 1 <= w.lastPage
  THEN [w EXCEPT !.pageNum = w.pageNum + 1, !.at = "normal"]
  ELSE [w EXCEPT !.pageNum = w.pageNum + 1, !.at = "exit"]

\* a worker that tries a failed upload a second time before it gives up
AfterUploadRetrying(w, ok) ==
  IF ~ok THEN (IF w.err THEN [w EXCEPT !.at = "exit"] ELSE [w EXCEPT !.err = TRUE])
  ELSE IF w.at = "normal" THEN [w EXCEPT !.at = "small"]
  ELSE IF w.at = "small" THEN [w EXCEPT !.at = "large"]
  ELSE IF w.pageNum + 1 <= w.lastPage
  THEN [w EXCEPT !.pageNum = w.pageNum + 1, !.at = "normal"]
  ELSE [w EXCEPT !.pageNum = w.pageNum + 1, !.at = "exit"]

\* a worker that gives up the page of a failed upload and goes on with the
\* next page
AfterUploadSkippingPage(w, ok) ==
  IF ~ok THEN (IF w.pageNum + 1 <= w.lastPage
               THEN [w EXCEPT !.err = TRUE, !.pageNum = w.pageNum + 1, !.at = "normal"]
               ELSE [w EXCEPT !.err = TRUE, !.pageNum = w.pageNum + 1, !.at = "exit"])
  ELSE IF w.at = "normal" THEN [w EXCEPT !.at = "small"]
  ELSE IF w.at = "small" THEN [w EXCEPT !.at = "large"]
  ELSE IF w.pageNum + 1 <= w.lastPage
  THEN [w EXCEPT !.pageNum = w.pageNum + 1, !.at = "normal"]
  ELSE [w EXCEPT !.pageNum = w.pageNum + 1, !.at = "exit"]

\* uploadJPEGRangeToS3, lines 87-96: where the worker goes after an upload
AfterUpload(w, ok) ==
  IF ~ok THEN [w EXCEPT !.err = TRUE, !.at = "exit"]
  ELSE IF w.at = "normal" THEN [w EXCEPT !.at = "small"]
  ELSE IF w.at = "small" THEN [w EXCEPT !.at = "large"]
  ELSE IF w.pageNum + 1 <= w.lastPage
  THEN [w EXCEPT !.pageNum = w.pageNum + 1, !.at = "normal"]
  ELSE [w EXCEPT !.pageNum = w.pageNum + 1, !.at = "exit"]

\* uploadJPEGToS3 called by worker i, lines 64-68: os.Open fails when the
\* local file is missing, and the error goes back to the worker (lines 87-96)
UpOpen(i) ==
  /\ upWorkers[i].at \in Variants
  /\ ~upWorkers[i].opened
  /\ LET w == upWorkers[i]
         p == w.pageNum
         v == w.at
         opened == LocalPath(v, p) \in files
     IN /\ outcome' = [c \in DOMAIN outcome \cup {<<"open", p, v>>} |->
                         IF c = <<"open", p, v>> THEN (IF opened THEN "ok" ELSE "fail")
                         ELSE outcome[c]]
        /\ IF opened
           THEN /\ upWorkers' = Update(upWorkers, i, [w EXCEPT !.opened = TRUE])
                /\ UNCHANGED upWg
           ELSE /\ upWorkers' = Update(upWorkers, i, Returned(AfterUpload(w, FALSE)))
                /\ upWg' = Done(upWg, AfterUpload(w, FALSE))
  /\ UNCHANGED <<requestVars, pc, response, storeReads, jpegPrefix, numPages,
                 numPagesPerWorker, firstPage, convWg, convWorkers, s3Paths,
                 files, store, plan, subst, other>>

\* uploadJPEGToS3 called by worker i, lines 70-75: bucket.PutReader of the
\* opened file; the step is the return of the call, which a PutReader that
\* hangs never reaches; the result goes back to the worker (lines 87-96)
UpPut(i) ==
  /\ upWorkers[i].at \in Variants
  /\ upWorkers[i].opened
  /\ <<"put", upWorkers[i].pageNum, upWorkers[i].at>> \notin hanging
  /\ LET w == [upWorkers[i] EXCEPT !.opened = FALSE]
         p == w.pageNum
         v == w.at
         put == <<"put", p, v>> \notin failing
     IN /\ outcome' = [c \in DOMAIN outcome \cup {<<"put", p, v>>} |->
                         IF c = <<"put", p, v>> THEN (IF put THEN "ok" ELSE "fail")
                         ELSE outcome[c]]
        /\ store' = IF put THEN PutReader(Sprintf(s3Paths[v], p), p, v) ELSE store
        /\ upWorkers' = Update(upWorkers, i, Returned(AfterUpload(w, put)))
        /\ upWg' = Done(upWg, AfterUpload(w, put))
  /\ UNCHANGED <<requestVars, pc, response, storeReads, jpegPrefix, numPages,
                 numPagesPerWorker, firstPage, convWg, convWorkers, s3Paths,
                 files, plan, subst, other>>

\* a step of upload worker i
UpStep(i) == UpOpen(i) \/ UpPut(i)

\* lines 188-189: wg.Wait(), then return nil
UpWait ==
  /\ pc = "upWait"
  /\ WaitReturns(upWg)
  /\ pc' = "respond"
  /\ UNCHANGED <<requestVars, response, storeReads, jpegPrefix, numPages,
                 numPagesPerWorker, firstPage, convWg, upWg, convWorkers,
                 upWorkers, s3Paths, files, store, outcome, plan, subst, other>>

\* a coordinator that hands back the first error of its workers
UploadAllResultFirstError ==
  IF \E i \in 1..Len(upWorkers) : upWorkers[i].err THEN "upload failed" ELSE ""

\* the error uploadAllJPEGsToS3 returns after wg.Wait() (line 189): nil,
\* whatever its workers returned to the go statement
UploadAllResult == ""

\* convert, lines 380-383
Respond ==
  /\ pc = "respond"
  /\ IF UploadAllResult # ""
     THEN Fail(UploadAllResult)
     ELSE /\ response' = <<"200", "Done">>
          /\ pc' = "returned"
  /\ UNCHANGED <<requestVars, storeReads, jpegPrefix, numPages,
                 numPagesPerWorker, firstPage, convWg, upWg, convWorkers,
                 upWorkers, s3Paths, files, store, outcome, plan, subst, other>>

Next ==
  \/ CheckMethod
  \/ ConnectToS3
  \/ ParseForm
  \/ GetReader
  \/ CreatePDF
  \/ CopyPDF
  \/ MakePrefix
  \/ CountPages
  \/ ConvSpawn
  \/ \E i \in 1..Len(convWorkers) : ConvStep(i)
  \/ ConvWait
  \/ Validate
  \/ UpSpawn
  \/ \E i \in 1..Len(upWorkers) : UpOpen(i)
  \/ \E i \in 1..Len(upWorkers) : UpPut(i)
  \/ UpWait
  \/ Respond

Spec == Init /\ [][Next]_vars


\* the same program over documents long enough for two-page upload ranges
InitWide == \E r \in WideRequests : InitRun(r)

SpecWide == InitWide /\ [][Next]_vars

(***************************************************************************)
(* The program under fair scheduling, with external calls that may hang    *)
(***************************************************************************)
\* at most one call that fails or at most one call that never returns
FairRequests ==
  UNION {{[request |-> Request("POST", GoodForm, GsPages(n), x), hanging |-> h] :
            x \in Faults(Calls(n), 1),
            h \in Faults(Calls(n) \cup {ParseCall, GetCall, CopyCall, CountCall}, 1)} :
           n \in 0..MaxFairPages}

InitFair ==
  \/ \E r \in EarlyRequests : InitRun(r)
  \/ \E r \in FairRequests :
       /\ r.request.failing = {} \/ r.hanging = {}
       /\ InitHanging(r.request, r.hanging)

\* the goroutine serving the request
Handler ==
  \/ CheckMethod
  \/ ConnectToS3
  \/ FetchPDF
  \/ MakePrefix
  \/ CountPages
  \/ ConvSpawn
  \/ ConvWait
  \/ Validate
  \/ UpSpawn
  \/ UpWait
  \/ Respond

\* every goroutine that can run is run in the end: the handler and each
\* worker goroutine
Fairness ==
  /\ WF_vars(Handler)
  /\ \A i \in 1..NUM_WORKERS_CONVERT : WF_vars(i <= Len(convWorkers) /\ ConvStep(i))
  /\ \A i \in 1..NUM_WORKERS_UPLOAD : WF_vars(i <= Len(upWorkers) /\ UpStep(i))

SpecFair == InitFair /\ [][Next]_vars /\ Fairness

(***************************************************************************)
(* Two requests served at the same time: net/http runs the handler of      *)
(* line 401 in a goroutine of its own for each request.  The variables of  *)
(* convert and of the functions it calls belong to one run; the scratch    *)
(* directory and the bucket are shared.  The state holds the variables of  *)
(* one run in the variables of the module and those of the other run in    *)
(* `other`; Swap exchanges them, so that every interleaving of the steps   *)
(* of the two runs is a behaviour.                                         *)
(***************************************************************************)
\* the variables a run of convert holds for itself
Locals ==
  [method |-> method, form |-> form, gsResult |-> gsResult, failing |-> failing,
   hanging |-> hanging, pc |-> pc, response |-> response,
   storeReads |-> storeReads, jpegPrefix |-> jpegPrefix, numPages |-> numPages,
   numPagesPerWorker |-> numPagesPerWorker, firstPage |-> firstPage,
   convWg |-> convWg, upWg |-> upWg, convWorkers |-> convWorkers,
   upWorkers |-> upWorkers, s3Paths |-> s3Paths, outcome |-> outcome]

\* those variables when convert is entered for request r
StartLocals(r, h) ==
  [method |-> r.method, form |-> r.form, gsResult |-> r.gsResult,
   failing |-> r.failing, hanging |-> h, pc |-> "start", response |-> <<>>,
   storeReads |-> 0, jpegPrefix |-> <<>>, numPages |-> 0,
   numPagesPerWorker |-> 0, firstPage |-> 1, convWg |-> 0, upWg |-> 0,
   convWorkers |-> <<>>, upWorkers |-> <<>>, s3Paths |-> <<>>, outcome |-> <<>>]

\* a first request one of whose calls fails or never returns
PairScenarios ==
  {[failing |-> {<<"gs", 1, "large">>}, hanging |-> {}],
   [failing |-> {<<"put", 1, "small">>}, hanging |-> {}],
   [failing |-> {}, hanging |-> {<<"gs", 1, "large">>}],
   [failing |-> {}, hanging |-> {<<"put", 1, "normal">>}],
   [failing |-> {}, hanging |-> {CountCall}],
   [failing |-> {}, hanging |-> {CopyCall}]}

\* request 1 is such a request, request 2 a request all of whose calls
\* work, both over one page
InitPair ==
  \E x \in PairScenarios :
    InitServing(Request("POST", GoodForm, GsPages(1), x.failing), x.hanging,
                [id |-> 2, locals |-> StartLocals(Request("POST", GoodForm, GsPages(1), {}), {})])

\* two runs that share one pair of WaitGroups
SwapSharingWaitGroups ==
  /\ other.id # 0
  /\ method' = other.locals.method
  /\ form' = other.locals.form
  /\ gsResult' = other.locals.gsResult
  /\ failing' = other.locals.failing
  /\ hanging' = other.locals.hanging
  /\ pc' = other.locals.pc
  /\ response' = other.locals.response
  /\ storeReads' = other.locals.storeReads
  /\ jpegPrefix' = other.locals.jpegPrefix
  /\ numPages' = other.locals.numPages
  /\ numPagesPerWorker' = other.locals.numPagesPerWorker
  /\ firstPage' = other.locals.firstPage
  /\ convWorkers' = other.locals.convWorkers
  /\ upWorkers' = other.locals.upWorkers
  /\ s3Paths' = other.locals.s3Paths
  /\ outcome' = other.locals.outcome
  /\ other' = [id |-> 3 - other.id, locals |-> Locals]
  /\ UNCHANGED <<convWg, upWg, files, store, plan, subst, entropy>>

\* the scheduler turns from the goroutines of one request to those of the
\* other: the variables of the module now hold the other run
Swap ==
  /\ other.id # 0
  /\ method' = other.locals.method
  /\ form' = other.locals.form
  /\ gsResult' = other.locals.gsResult
  /\ failing' = other.locals.failing
  /\ hanging' = other.locals.hanging
  /\ pc' = other.locals.pc
  /\ response' = other.locals.response
  /\ storeReads' = other.locals.storeReads
  /\ jpegPrefix' = other.locals.jpegPrefix
  /\ numPages' = other.locals.numPages
  /\ numPagesPerWorker' = other.locals.numPagesPerWorker
  /\ firstPage' = other.locals.firstPage
  /\ convWg' = other.locals.convWg
  /\ upWg' = other.locals.upWg
  /\ convWorkers' = other.locals.convWorkers
  /\ upWorkers' = other.locals.upWorkers
  /\ s3Paths' = other.locals.s3Paths
  /\ outcome' = other.locals.outcome
  /\ other' = [id |-> 3 - other.id, locals |-> Locals]
  /\ UNCHANGED <<files, store, plan, subst, entropy>>

NextPair == Next \/ Swap

SpecPair == InitPair /\ [][NextPair]_vars

(***************************************************************************)
(* The partition loop on its own (lines 171-186 and 257-273), for any      *)
(* total and worker count                                                  *)
(***************************************************************************)
PlanStart(total, workerCount) ==
  [total |-> total, workerCount |-> workerCount,
   perWorker |-> NumPagesPerWorker(total, workerCount),
   firstPage |-> 1, ranges |-> <<>>, done |-> FALSE]

InitPlan ==
  /\ method = "POST"
  /\ form = GoodForm
  /\ gsResult = GsPages(0)
  /\ failing = {}
  /\ entropy = SoloBytes
  /\ pc = "plan"
  /\ response = <<>>
  /\ storeReads = 0
  /\ jpegPrefix = <<>>
  /\ numPages = 0
  /\ numPagesPerWorker = 0
  /\ firstPage = 1
  /\ convWg = 0
  /\ upWg = 0
  /\ convWorkers = <<>>
  /\ upWorkers = <<>>
  /\ s3Paths = <<>>
  /\ files = {}
  /\ store = <<>>
  /\ outcome = <<>>
  /\ hanging = {}
  /\ subst = substIdle
  /\ other = otherIdle
  /\ \E total \in 0..MaxTotal, workerCount \in 1..MaxWorkers :
       plan = PlanStart(total, workerCount)

\* one turn of the loop: the range handed to the worker spawned in it
PlanStep ==
  /\ ~plan.done
  /\ plan' =
       IF plan.firstPage <= plan.total
       THEN [plan EXCEPT
               !.ranges = Append(plan.ranges,
                  [first |-> plan.firstPage,
                   last |-> LastPage(plan.firstPage, plan.perWorker, plan.total)]),
               !.firstPage = NextFirstPage(plan.firstPage, plan.perWorker)]
       ELSE [plan EXCEPT !.done = TRUE]
  /\ UNCHANGED <<requestVars, pc, response, storeReads, jpegPrefix, numPages,
                 numPagesPerWorker, firstPage, convWg, upWg, convWorkers,
                 upWorkers, s3Paths, files, store, outcome, subst, other>>

NextPlan == PlanStep

SpecPlan == InitPlan /\ [][NextPlan]_vars


(***************************************************************************)
(* The path substitution on its own: fmt.Sprintf(template, pageNum) of     *)
(* lines 64, 70 and 217-219, for a remote template that went through the   *)
(* check of lines 149-168 or a local template built at lines 370-372, and  *)
(* two page numbers                                                        *)
(***************************************************************************)
\* the characters remote templates are made of
TemplateTokens == {"a", "%", "d", "T"}

RemoteTemplates == UNION {[1..n -> TemplateTokens] : n \in 1..MaxTemplateLen}

LocalTemplates ==
  {LocalTemplate(generateRandomString(PrefixLen, randomBytes), v) :
     randomBytes \in RandRead(PrefixLen), v \in Variants}

SubstStart(template, local, a, b) ==
  [template |-> template, local |-> local, pages |-> <<a, b>>, valid |-> FALSE,
   paths |-> <<>>, at |-> "check"]

InitSubst ==
  /\ method = "POST"
  /\ form = GoodForm
  /\ gsResult = GsPages(0)
  /\ failing = {}
  /\ entropy = SoloBytes
  /\ pc = "subst"
  /\ response = <<>>
  /\ storeReads = 0
  /\ jpegPrefix = <<>>
  /\ numPages = 0
  /\ numPagesPerWorker = 0
  /\ firstPage = 1
  /\ convWg = 0
  /\ upWg = 0
  /\ convWorkers = <<>>
  /\ upWorkers = <<>>
  /\ s3Paths = <<>>
  /\ files = {}
  /\ store = <<>>
  /\ outcome = <<>>
  /\ plan = planIdle
  /\ hanging = {}
  /\ other = otherIdle
  /\ \E a \in 1..MaxPageNum, b \in 1..MaxPageNum :
       /\ a < b
       /\ \/ \E t \in RemoteTemplates : subst = SubstStart(t, FALSE, a, b)
          \/ \E t \in LocalTemplates : subst = SubstStart(t, TRUE, a, b)

\* lines 149-168 for a remote template: without "%d" it is rejected and never
\* resolved; a local template is not checked
SubstCheck ==
  /\ subst.at = "check"
  /\ LET valid == subst.local \/ ContainsPlaceholder(subst.template)
     IN subst' = [subst EXCEPT !.valid = valid,
                               !.at = IF valid THEN "resolve" ELSE "done"]
  /\ UNCHANGED <<requestVars, pc, response, storeReads, jpegPrefix, numPages,
                 numPagesPerWorker, firstPage, convWg, upWg, convWorkers,
                 upWorkers, s3Paths, files, store, outcome, plan, other>>

\* lines 64 and 70 (217-219 for a local template): the path of the next page
SubstResolve ==
  /\ subst.at = "resolve"
  /\ LET paths == Append(subst.paths,
                         Sprintf(subst.template, subst.pages[Len(subst.paths) + 1]))
     IN subst' = [subst EXCEPT !.paths = paths,
                               !.at = IF Len(paths) = Len(subst.pages) THEN "done"
                                      ELSE "resolve"]
  /\ UNCHANGED <<requestVars, pc, response, storeReads, jpegPrefix, numPages,
                 numPagesPerWorker, firstPage, convWg, upWg, convWorkers,
                 upWorkers, s3Paths, files, store, outcome, plan, other>>

NextSubst == SubstCheck \/ SubstResolve

SpecSubst == InitSubst /\ [][NextSubst]_vars


(***************************************************************************)
(* Properties                                                              *)
(***************************************************************************)
\* calls of uploadJPEGToS3 made so far (os.Open) and PutReader calls made
UploadCalls == {c \in DOMAIN outcome : c[1] \in {"open", "put"}}

ConvCalls == {c \in DOMAIN outcome : c[1] \in {"gs", "resize"}}

Succeeded == <<"200", "Done">>

\* C1: within one request no upload worker exists and no upload call or
\* store write has been made while a conversion worker has not terminated
C1_PhasesSequential ==
  (\E i \in 1..Len(convWorkers) : convWorkers[i].at # "done")
    => /\ upWorkers = <<>>
       /\ UploadCalls = {}
       /\ store = <<>>
       /\ pc \in {"convSpawn", "convWait"}

\* both conversion workers have run and returned, and uploads are under way
C1_Witness ==
  /\ Len(convWorkers) = NUM_WORKERS_CONVERT
  /\ \A i \in 1..Len(convWorkers) : convWorkers[i].at = "done"
  /\ \E i \in 1..Len(upWorkers) : upWorkers[i].at # "done"
  /\ store # <<>>

\* C2: uploadAllJPEGsToS3 has returned (the handler is about to answer, or
\* has answered "Done") only when every upload worker it spawned has
\* terminated, after its whole range or after an error
C2_UploadBarrier ==
  (pc = "respond" \/ response = Succeeded)
    => \A i \in 1..Len(upWorkers) : upWorkers[i].at = "done"

\* "Done" has been answered after one upload worker returned on an error and
\* another finished its range
C2_Witness ==
  /\ response = Succeeded
  /\ \E i, j \in 1..Len(upWorkers) :
       /\ upWorkers[i].err /\ upWorkers[i].pageNum <= upWorkers[i].lastPage
       /\ ~upWorkers[j].err /\ upWorkers[j].pageNum > upWorkers[j].lastPage

\* pages of a range
PagesOf(r) == r.first..r.last

\* C3: for every total >= 0 and workerCount >= 1 the ranges of the partition
\* loop are sorted by start, pairwise disjoint, cover 1..total exactly, and
\* are at most workerCount
C3_PartitionCovers ==
  plan.done =>
    /\ Len(plan.ranges) <= plan.workerCount
    /\ \A i \in 1..Len(plan.ranges) : plan.ranges[i].first <= plan.ranges[i].last
    /\ \A i, j \in 1..Len(plan.ranges) :
         i < j => plan.ranges[i].last < plan.ranges[j].first
    /\ UNION {PagesOf(plan.ranges[i]) : i \in 1..Len(plan.ranges)} = 1..plan.total

\* a finished partition for ten workers whose last range was clamped
C3_Witness ==
  /\ plan.done
  /\ plan.workerCount = NUM_WORKERS_UPLOAD
  /\ Len(plan.ranges) > NUM_WORKERS_CONVERT
  /\ plan.ranges[Len(plan.ranges)].last - plan.ranges[Len(plan.ranges)].first + 1
       < plan.perWorker

\* ceil(total / workerCount), from its definition
CeilDiv(total, workerCount) ==
  CHOOSE c \in 0..total : c * workerCount >= total /\ (c - 1) * workerCount < total

\* C4: every range has length ceil(total/workerCount), except possibly the
\* last, whose length is total mod that, or the full length when total is a
\* multiple of it
C4_RangeLengths ==
  plan.done =>
    LET size == CeilDiv(plan.total, plan.workerCount)
        n == Len(plan.ranges)
        length(i) == plan.ranges[i].last - plan.ranges[i].first + 1
    IN /\ \A i \in 1..(n - 1) : length(i) = size
       /\ n > 0 => length(n) = (IF plan.total % size = 0 THEN size
                                ELSE plan.total % size)

\* a finished partition into several ranges with a shorter last one
C4_Witness ==
  /\ plan.done
  /\ Len(plan.ranges) > 2
  /\ plan.total % plan.perWorker # 0
  /\ plan.ranges[1].last - plan.ranges[1].first + 1 = plan.perWorker


RECURSIVE Substitute(_, _)
\* the template with every placeholder %d replaced by the decimal page number
Substitute(t, n) ==
  IF t = <<>> THEN <<>>
  ELSE IF Len(t) >= 2 /\ t[1] = "%" /\ t[2] = "d"
  THEN Itoa(n) \o Substitute(SubSeq(t, 3, Len(t)), n)
  ELSE <<Head(t)>> \o Substitute(Tail(t), n)

\* a template whose only "%" is the one of a single %d
Plain(t) ==
  /\ Cardinality({i \in 1..Len(t) : t[i] = "%"}) = 1
  /\ ContainsPlaceholder(t)

\* the request was answered "Done" and no external call or store write failed
FullSuccess ==
  /\ response = Succeeded
  /\ numPages >= 0
  /\ \A c \in DOMAIN outcome : outcome[c] = "ok"

PageVariants == {<<p, v>> : p \in 1..numPages, v \in Variants}

\* C5 as claimed: a fully successful run over N pages leaves exactly 3N
\* objects in the bucket, at the three templates with the placeholder
\* replaced by each page number of 1..N
C5_ThreeObjectsPerPage ==
  FullSuccess =>
    /\ Cardinality(DOMAIN store) = 3 * numPages
    /\ DOMAIN store = {Substitute(s3Paths[x[2]], x[1]) : x \in PageVariants}

\* C5 amended: a fully successful run over N pages makes exactly 3N store
\* writes, one per page of 1..N and variant, at fmt.Sprintf(template, page);
\* these are the templates with the placeholder replaced by the page number
\* when every template's only "%" is that of one %d, and they are 3N objects,
\* each holding its page and variant, when the 3N paths differ
C5_ThreeWritesPerPage ==
  FullSuccess =>
    LET paths == {Sprintf(s3Paths[x[2]], x[1]) : x \in PageVariants}
    IN /\ {c \in DOMAIN outcome : c[1] = "put"}
            = {<<"put", x[1], x[2]>> : x \in PageVariants}
       /\ DOMAIN store = paths
       /\ (\A v \in Variants : Plain(s3Paths[v]))
            => DOMAIN store = {Substitute(s3Paths[x[2]], x[1]) : x \in PageVariants}
       /\ Cardinality(paths) = 3 * numPages
            => /\ Cardinality(DOMAIN store) = 3 * numPages
               /\ \A x \in PageVariants :
                    store[Sprintf(s3Paths[x[2]], x[1])] = [page |-> x[1], variant |-> x[2]]

\* a fully successful run over three pages whose paths do not collide
C5_Witness ==
  /\ FullSuccess
  /\ numPages = 3
  /\ Cardinality(DOMAIN store) = 9
  /\ \A v \in Variants : Plain(s3Paths[v])

\* position of an upload in a worker's order: pages ascending, and normal,
\* small, large within a page
UpPos(c) == 3 * c[2] + (CASE c[3] = "normal" -> 0 [] c[3] = "small" -> 1
                          [] c[3] = "large" -> 2)

UpRange(i) == upWorkers[i].firstPage..upWorkers[i].lastPage

\* the upload calls of worker i, and those that failed
UpCallsOf(i) == {c \in UploadCalls : c[2] \in UpRange(i)}
UpFailedOf(i) == {c \in UpCallsOf(i) : outcome[c] = "fail"}

\* C6: an upload worker one of whose uploads failed has returned and made no
\* upload after the failed one; a worker with no failure of its own is never
\* blocked, and once it has returned it has stored its whole range
C6_UploadFailureStaysLocal ==
  \A i \in 1..Len(upWorkers) :
    /\ \A c \in UpFailedOf(i), d \in UpCallsOf(i) : UpPos(d) <= UpPos(c)
    /\ UpFailedOf(i) # {} <=> upWorkers[i].err
    /\ upWorkers[i].err => upWorkers[i].at = "done"
    /\ upWorkers[i].at \in Variants => ENABLED UpStep(i)
    /\ (upWorkers[i].at = "done" /\ ~upWorkers[i].err)
         => \A p \in UpRange(i), v \in Variants :
              /\ <<"put", p, v>> \in DOMAIN outcome
              /\ outcome[<<"put", p, v>>] = "ok"
              /\ Sprintf(s3Paths[v], p) \in DOMAIN store

\* worker i failed on the first page of a two-page range and left the second
\* page alone, while worker j stored both pages of its range
C6_Witness ==
  /\ response = Succeeded
  /\ \E i, j \in 1..Len(upWorkers) :
       /\ upWorkers[i].err
       /\ upWorkers[i].pageNum = upWorkers[i].firstPage
       /\ upWorkers[i].lastPage > upWorkers[i].firstPage
       /\ \A c \in UploadCalls : c[2] # upWorkers[i].lastPage
       /\ ~upWorkers[j].err
       /\ upWorkers[j].lastPage > upWorkers[j].firstPage
       /\ \A p \in UpRange(j), v \in Variants : Sprintf(s3Paths[v], p) \in DOMAIN store

\* position of an external invocation in a conversion worker's order
ConvPos(c) == 3 * c[2] + (CASE c[3] = "large" -> 0 [] c[3] = "normal" -> 1
                            [] c[3] = "small" -> 2)

ConvRange(i) == convWorkers[i].firstPage..convWorkers[i].lastPage

\* C7: a conversion worker makes no invocation after one that failed, be it
\* the rasterizer, the resize to normal or the resize to small
C7_ConversionStopsOnFailure ==
  \A i \in 1..Len(convWorkers) :
    \A c, d \in {x \in ConvCalls : x[2] \in ConvRange(i)} :
      outcome[c] = "fail" => ConvPos(d) <= ConvPos(c)

\* the three templates are each present once and carry the placeholder
TemplatesValid(f) ==
  \A k \in TemplateKeys :
    k \in DOMAIN f /\ Len(f[k]) = 1 /\ ContainsPlaceholder(f[k][1])

\* the handler got as far as counting the pages, and the count succeeded
Counted == jpegPrefix # <<>> /\ pc # "count" /\ getNumPages.ok

\* C8: once the pages are counted and the templates are valid, the only
\* answer the request ever gets is "Done", whatever its workers ran into
C8_WorkerFailuresNotSurfaced ==
  (Counted /\ TemplatesValid(form))
    => /\ response \in {<<>>, Succeeded}
       /\ pc = "returned" => response = Succeeded

\* "Done" was answered although a conversion worker and an upload worker
\* both returned on an error
C8_Witness ==
  /\ response = Succeeded
  /\ \E i \in 1..Len(convWorkers) : convWorkers[i].err
  /\ \E i \in 1..Len(upWorkers) : upWorkers[i].err

\* C9: whenever uploadJPEGToS3 was called for a page and variant, the local
\* file of that page and variant existed
C9_UploadedFileExists ==
  \A c \in DOMAIN outcome : c[1] = "open" => LocalPath(c[3], c[2]) \in files

ValidationMessages ==
  {"Must specify a JPEG path", "Must specify a small JPEG path",
   "Must specify a large JPEG path", "Must specify exactly one s3JPEGPath",
   "Must specify exactly one s3SmallJPEGPath",
   "Must specify exactly one s3LargeJPEGPath", "s3JPEGPath without %d",
   "s3SmallJPEGPath without %d", "s3LargeJPEGPath without %d"}

ValidationFailed == Len(response) = 2 /\ response[1] = "500"
                      /\ response[2] \in ValidationMessages

\* C10 as claimed: a request rejected by the template validation has made no
\* call to the object store at all
C10_RejectedBeforeStoreIO ==
  ValidationFailed => storeReads = 0 /\ UploadCalls = {} /\ store = <<>>

\* C10 amended: a missing, repeated or placeholder-less template, each alone,
\* makes the request fail once the conversion is over, before any upload
\* worker, upload call or store write; the one store call made by then is the
\* GetReader with which fetchPDF read the PDF
C10_RejectedBeforeStoreWrite ==
  /\ ~TemplatesValid(form)
       => /\ upWorkers = <<>> /\ UploadCalls = {} /\ store = <<>>
          /\ response # Succeeded
          /\ pc \notin {"upSpawn", "upWait", "respond"}
  /\ ValidationFailed
       => ~TemplatesValid(form) /\ storeReads = 1 /\ pc = "returned"
  /\ (pc = "returned" /\ Counted /\ ~TemplatesValid(form)) => ValidationFailed

\* a request whose only flaw is a small template sent twice was rejected
\* after its pages were converted and nothing was uploaded
C10_Witness ==
  /\ ValidationFailed
  /\ \A k \in TemplateKeys : k \in DOMAIN form /\ ContainsPlaceholder(form[k][1])
  /\ Len(form["s3SmallJPEGPath"]) = 2
  /\ Len(form["s3JPEGPath"]) = 1 /\ Len(form["s3LargeJPEGPath"]) = 1
  /\ files # {}
  /\ store = <<>>

\* C11 as claimed: a request rejected by the template validation has made no
\* page-count query and no rasterizer or resizer invocation
C11_RejectedBeforeAnyWork ==
  ValidationFailed => ~Counted /\ ConvCalls = {} /\ convWorkers = <<>> /\ files = {}

\* C11 amended: a request rejected by the template validation has had its
\* pages counted and its conversion phase run to the end (workers over all of
\* 1..numPages, each returned after at least its first rasterizer run), and
\* has started no upload worker and attempted no store write
C11_RejectedAfterConversion ==
  ValidationFailed =>
    /\ Counted
    /\ numPages = getNumPages.value
    /\ UNION {ConvRange(i) : i \in 1..Len(convWorkers)} = 1..numPages
    /\ \A i \in 1..Len(convWorkers) :
         /\ convWorkers[i].at = "done"
         /\ <<"gs", convWorkers[i].firstPage, "large">> \in DOMAIN outcome
    /\ upWorkers = <<>> /\ UploadCalls = {} /\ store = <<>>

\* a request without a large template was rejected after the three variants
\* of each of its pages were written to the scratch directory
C11_Witness ==
  /\ ValidationFailed
  /\ "s3LargeJPEGPath" \notin DOMAIN form
  /\ numPages = MaxPages
  /\ Cardinality(files) = 3 * MaxPages
  /\ Len(convWorkers) = NUM_WORKERS_CONVERT

\* the page-count run of gs failed, or what it printed is, once the newlines
\* around it are cut, not an optional sign followed by decimal digits
CountingFails ==
  \/ ~gsResult.ok
  \/ LET text == Trim(gsResult.out, "\n")
         body == IF text # <<>> /\ Head(text) \in {"+", "-"} THEN Tail(text) ELSE text
     IN body = <<>> \/ \E i \in 1..Len(body) : body[i] \notin {Digits[k] : k \in 1..10}

\* C12: when the page count fails, the handler answers with the error at
\* once: no conversion worker, no rasterizer or resizer invocation, no
\* upload phase and no store write; and that error is answered only then
C12_CountFailureAborts ==
  /\ (jpegPrefix # <<>> /\ pc # "count" /\ CountingFails)
       => /\ pc = "returned"
          /\ response = <<"500", "getNumPages">>
          /\ convWorkers = <<>> /\ convWg = 0 /\ ConvCalls = {} /\ files = {}
          /\ upWorkers = <<>> /\ upWg = 0 /\ UploadCalls = {} /\ store = <<>>
  /\ response = <<"500", "getNumPages">> => CountingFails

\* gs ran and printed something that is no number, and the request was
\* answered with the error
C12_Witness ==
  /\ response = <<"500", "getNumPages">>
  /\ gsResult.ok
  /\ gsResult.out # <<>>
  /\ pc = "returned"


\* the calls of uploadJPEGToS3 that come before call c in the order pages
\* ascending, and normal, small, large within a page, over the range of
\* upload worker i
UpBefore(i, c) ==
  {<<p, v>> \in UpRange(i) \X Variants : UpPos(<<"open", p, v>>) < UpPos(c)}

\* C13: whenever an upload worker has attempted the upload of a page and
\* variant, it has attempted, with success, every upload that comes before
\* it in the order of its range: pages ascending and, within a page, normal,
\* small, large
C13_UploadOrder ==
  \A i \in 1..Len(upWorkers) :
    \A c \in UpCallsOf(i) :
      \A x \in UpBefore(i, c) :
        /\ <<"open", x[1], x[2]>> \in DOMAIN outcome
        /\ outcome[<<"open", x[1], x[2]>>] = "ok"
        /\ <<"put", x[1], x[2]>> \in DOMAIN outcome
        /\ outcome[<<"put", x[1], x[2]>>] = "ok"

\* a worker with a two-page range has attempted the small JPEG of its second
\* page and not yet the large one
C13_Witness ==
  \E i \in 1..Len(upWorkers) :
    /\ upWorkers[i].lastPage > upWorkers[i].firstPage
    /\ upWorkers[i].pageNum = upWorkers[i].lastPage
    /\ upWorkers[i].at = "large"
    /\ <<"put", upWorkers[i].lastPage, "small">> \in DOMAIN outcome
    /\ <<"open", upWorkers[i].lastPage, "large">> \notin DOMAIN outcome

\* the invocations that come before call c in the order pages ascending,
\* and large, normal, small within a page, over the range of conversion
\* worker i
ConvBefore(i, c) ==
  {x \in Calls(numPages) :
     x[1] \in {"gs", "resize"} /\ x[2] \in ConvRange(i) /\ ConvPos(x) < ConvPos(c)}

\* C14: whenever a conversion worker has made an invocation, it has made
\* every invocation that comes before it in the order of its range (pages
\* ascending; rasterize to large, resize to normal, resize to small), and
\* the one rasterizer run before it did not fail; the small file of a page
\* exists only if its normal file does, and the normal only if the large
C14_ConversionOrder ==
  /\ \A i \in 1..Len(convWorkers) :
       \A c \in {x \in ConvCalls : x[2] \in ConvRange(i)} :
         \A d \in ConvBefore(i, c) :
           /\ d \in DOMAIN outcome
           /\ d[1] = "gs" => outcome[d] = "ok"
  /\ \A p \in 1..numPages :
       /\ LocalPath("small", p) \in files => LocalPath("normal", p) \in files
       /\ LocalPath("normal", p) \in files => LocalPath("large", p) \in files

\* a worker with a two-page range has produced the three files of both pages
C14_Witness ==
  \E i \in 1..Len(convWorkers) :
    /\ convWorkers[i].lastPage > convWorkers[i].firstPage
    /\ convWorkers[i].at = "done"
    /\ \A p \in ConvRange(i), v \in Variants : LocalPath(v, p) \in files


\* local files conversion worker i has written so far
ConvWrittenBy(i) ==
  {LocalPath(c[3], c[2]) : c \in {x \in ConvCalls : x[2] \in ConvRange(i) /\ outcome[x] = "ok"}}

\* remote paths upload worker i has written to so far, for the given variants
UpWrittenBy(i, variants) ==
  {Sprintf(s3Paths[c[3]], c[2]) :
     c \in {x \in UpCallsOf(i) : x[1] = "put" /\ x[3] \in variants /\ outcome[x] = "ok"}}

\* C15 as claimed: the workers of a phase have pairwise disjoint page
\* ranges, no local file has been written by two conversion workers and no
\* remote object by two upload workers
C15_NoSharedWrites ==
  LET local == [i \in 1..Len(convWorkers) |-> ConvWrittenBy(i)]
      remote == [i \in 1..Len(upWorkers) |-> UpWrittenBy(i, Variants)]
  IN /\ \A i, j \in 1..Len(convWorkers) :
          i < j => /\ ConvRange(i) \cap ConvRange(j) = {}
                   /\ local[i] \cap local[j] = {}
     /\ \A i, j \in 1..Len(upWorkers) :
          i < j => /\ UpRange(i) \cap UpRange(j) = {}
                   /\ remote[i] \cap remote[j] = {}

\* C15 amended: the workers of a phase have pairwise disjoint page ranges,
\* no local file has been written by two conversion workers, and no remote
\* object of one variant has been written by two upload workers when that
\* variant's template has one %d as its only "%"
C15_DisjointRanges ==
  LET local == [i \in 1..Len(convWorkers) |-> ConvWrittenBy(i)]
      remote == [i \in 1..Len(upWorkers) |->
                   [v \in Variants |-> UpWrittenBy(i, {v})]]
  IN /\ \A i, j \in 1..Len(convWorkers) :
          i < j => /\ ConvRange(i) \cap ConvRange(j) = {}
                   /\ local[i] \cap local[j] = {}
     /\ \A i, j \in 1..Len(upWorkers) :
          i < j => /\ UpRange(i) \cap UpRange(j) = {}
                   /\ \A v \in Variants :
                        Plain(s3Paths[v]) => remote[i][v] \cap remote[j][v] = {}

\* both conversion workers have written files, and two upload workers that
\* have each stored an object are still running
C15_Witness ==
  /\ Len(convWorkers) = NUM_WORKERS_CONVERT
  /\ \A i \in 1..Len(convWorkers) : ConvWrittenBy(i) # {}
  /\ \E i, j \in 1..Len(upWorkers) :
       /\ i # j
       /\ upWorkers[i].at \in Variants /\ UpWrittenBy(i, Variants) # {}
       /\ upWorkers[j].at \in Variants /\ UpWrittenBy(j, Variants) # {}


\* the calls a step adds to those made so far
NewCalls == DOMAIN outcome' \ DOMAIN outcome

\* a step of a worker: the worker list changes and no worker is spawned
ConvWorkerStep == Len(convWorkers') = Len(convWorkers) /\ convWorkers' # convWorkers
UpWorkerStep == Len(upWorkers') = Len(upWorkers) /\ upWorkers' # upWorkers

\* every step of a conversion worker makes one invocation that was not made
\* before, every step of an upload worker one call of uploadJPEGToS3 that was
\* not made before (os.Open, or PutReader of the file it opened); no call
\* made is forgotten, and the calls are those of the pages 1..numPages
NoRetryStep ==
  /\ DOMAIN outcome \subseteq DOMAIN outcome'
  /\ ConvWorkerStep =>
       /\ Cardinality(NewCalls) = 1
       /\ \A c \in NewCalls : c[1] \in {"gs", "resize"}
  /\ UpWorkerStep =>
       \E p \in 1..numPages, v \in Variants :
         \/ NewCalls = {<<"open", p, v>>} /\ <<"put", p, v>> \notin DOMAIN outcome
         \/ /\ NewCalls = {<<"put", p, v>>}
            /\ <<"open", p, v>> \in DOMAIN outcome
            /\ outcome[<<"open", p, v>>] = "ok"
  /\ (~ConvWorkerStep /\ ~UpWorkerStep) => NewCalls = {}
  /\ {c \in DOMAIN outcome' : c[1] = "gs"}
       \subseteq {<<"gs", p, "large">> : p \in 1..numPages'}
  /\ {c \in DOMAIN outcome' : c[1] = "put"}
       \subseteq {<<"put", p, v>> : p \in 1..numPages', v \in Variants}
  /\ numPages' >= 0
       => Cardinality({c \in DOMAIN outcome' : c[1] = "put"}) <= 3 * numPages'

\* C16: nothing is retried: every rasterizer run and every store write of a
\* worker is one that was not attempted before in the run, so each page is
\* rasterized at most once, each (page, variant) written at most once, and
\* the store writes attempted are at most 3 x numPages
C16_NoRetry == [][NoRetryStep]_vars

\* a three-page request has been answered after a store write failed and a
\* rasterizer run failed, neither file or object being there
C16_Witness ==
  /\ pc = "returned"
  /\ numPages = 3
  /\ \E c \in DOMAIN outcome :
       /\ c[1] = "put" /\ outcome[c] = "fail"
       /\ Sprintf(s3Paths[c[3]], c[2]) \notin DOMAIN store
  /\ \E c \in DOMAIN outcome :
       /\ c[1] = "gs" /\ outcome[c] = "fail"
       /\ LocalPath("large", c[2]) \notin files

\* C17: a document of 0 pages gets no conversion worker and no upload
\* worker, both WaitGroups stay at zero so that neither Wait blocks, nothing
\* is converted or uploaded and, with valid templates, the answer is "Done";
\* for any worker count the partition loop's condition is false at once
C17_ZeroPages ==
  /\ (Counted /\ getNumPages.value = 0) =>
       /\ numPages = 0
       /\ convWorkers = <<>> /\ upWorkers = <<>>
       /\ convWg = 0 /\ upWg = 0
       /\ pc = "convWait" => WaitReturns(convWg)
       /\ pc = "upWait" => WaitReturns(upWg)
       /\ ConvCalls = {} /\ UploadCalls = {} /\ files = {} /\ store = <<>>
       /\ (pc = "returned" /\ TemplatesValid(form)) => response = Succeeded
  /\ \A w \in 1..MaxWorkers :
       /\ NumPagesPerWorker(0, w) = 0
       /\ PlanStart(0, w).firstPage > PlanStart(0, w).total

\* a document of 0 pages was answered "Done" with an empty bucket
C17_Witness ==
  /\ Counted
  /\ getNumPages.value = 0
  /\ response = Succeeded
  /\ pc = "returned"
  /\ store = <<>>

RECURSIVE WithSuffix(_, _)
\* the template with the suffix put after its first %d
WithSuffix(t, suffix) ==
  IF t = <<>> THEN <<>>
  ELSE IF Len(t) >= 2 /\ t[1] = "%" /\ t[2] = "d"
  THEN <<"%", "d", suffix>> \o SubSeq(t, 3, Len(t))
  ELSE <<Head(t)>> \o WithSuffix(Tail(t), suffix)

\* the request carries s3PDFPath and, as its only JPEG template, one
\* s3JPEGPath with a %d
OnlyJPEGPath ==
  /\ DOMAIN form = {"s3PDFPath", "s3JPEGPath"}
  /\ Len(form["s3JPEGPath"]) = 1
  /\ ContainsPlaceholder(form["s3JPEGPath"][1])

\* C18: a request whose only JPEG template is s3JPEGPath = T, once its
\* pages are counted and it has returned, was answered "Done" and left for
\* each page p the objects T with %d replaced by p, by p-small and by
\* p-large
C18_SingleTemplateUploads ==
  (OnlyJPEGPath /\ Counted /\ pc = "returned") =>
    /\ response = Succeeded
    /\ \A p \in 1..numPages :
         /\ Substitute(form["s3JPEGPath"][1], p) \in DOMAIN store
         /\ Substitute(WithSuffix(form["s3JPEGPath"][1], "-small"), p) \in DOMAIN store
         /\ Substitute(WithSuffix(form["s3JPEGPath"][1], "-large"), p) \in DOMAIN store


\* both pages of a template that was let through have been resolved
Resolved == subst.at = "done" /\ subst.valid

\* C19: for a local template, and for a remote template that passed
\* validation, two distinct page numbers resolve to distinct paths.  The
\* program hands the template to fmt.Sprintf as a format (lines 64, 70), so
\* that a validated template such as %T%d resolves every page to
\* "int%!d(MISSING)"
C19_SubstitutionInjective ==
  Resolved => subst.paths[1] # subst.paths[2]


\* the handler has answered and every worker it spawned has returned
Responded ==
  /\ pc = "returned"
  /\ response # <<>>
  /\ \A i \in 1..Len(convWorkers) : convWorkers[i].at = "done"
  /\ \A i \in 1..Len(upWorkers) : upWorkers[i].at = "done"

\* an invocation that never returns has been made: a call of fetchPDF, the
\* page count, an invocation of a conversion worker, a store write of an
\* upload worker
FetchHung ==
  \/ pc = "fetch" /\ ParseCall \in hanging
  \/ pc = "getReader" /\ GetCall \in hanging
  \/ pc = "copy" /\ CopyCall \in hanging
CountHung == pc = "count" /\ CountCall \in hanging
ConvHung ==
  \E i \in 1..Len(convWorkers) :
    /\ convWorkers[i].at \in {"gs", "normal", "small"}
    /\ ConvCall(convWorkers[i].at, convWorkers[i].pageNum) \in hanging
UpHung ==
  \E i \in 1..Len(upWorkers) :
    /\ upWorkers[i].at \in Variants
    /\ upWorkers[i].opened
    /\ <<"put", upWorkers[i].pageNum, upWorkers[i].at>> \in hanging

\* C20: under fair scheduling a request none of whose external calls hangs
\* ends with every worker returned, both barriers passed and an answer
\* written; once an invocation that never returns has been made it stays
\* made, the handler never gets past the barrier of that phase (past the
\* page count, for the page-count run; past fetchPDF, for its calls) and
\* never answers
C20_RespondsUnlessHung ==
  /\ (hanging = {}) ~> Responded
  /\ [](FetchHung => pc \in {"fetch", "getReader", "copy"} /\ response = <<>>)
  /\ [](CountHung => pc = "count" /\ response = <<>>)
  /\ [](ConvHung => pc \in {"convSpawn", "convWait"} /\ response = <<>>)
  /\ [](UpHung => pc \in {"upSpawn", "upWait"} /\ response = <<>>)
  /\ [][/\ FetchHung => FetchHung'
        /\ CountHung => CountHung'
        /\ ConvHung => ConvHung'
        /\ UpHung => UpHung']_vars

\* a request whose calls all return was answered "Done" after two conversion
\* workers and two upload workers returned, one of them on an error
C20_Witness ==
  /\ hanging = {}
  /\ Responded
  /\ response = Succeeded
  /\ Len(convWorkers) = NUM_WORKERS_CONVERT
  /\ Len(upWorkers) >= 2
  /\ \E i \in 1..Len(upWorkers) : upWorkers[i].err


\* the workers of each phase that were spawned and have not returned
LiveConv == {i \in 1..Len(convWorkers) : convWorkers[i].at # "done"}
LiveUp == {i \in 1..Len(upWorkers) : upWorkers[i].at # "done"}

\* C21: in both phases the WaitGroup counter is the number of workers that
\* were spawned and have not returned, whether they return at the end of
\* their range or early on an error: it is never negative, it is zero
\* exactly when every spawned worker has returned, and Wait returns exactly
\* then
C21_WaitGroupExact ==
  /\ convWg = Cardinality(LiveConv)
  /\ upWg = Cardinality(LiveUp)
  /\ convWg >= 0 /\ upWg >= 0
  /\ convWg = 0 <=> LiveConv = {}
  /\ upWg = 0 <=> LiveUp = {}
  /\ pc = "convWait" => (WaitReturns(convWg) <=> LiveConv = {})
  /\ pc = "upWait" => (WaitReturns(upWg) <=> LiveUp = {})

\* both counters are back at zero after a conversion worker and an upload
\* worker returned early on an error and another upload worker finished its
\* range
C21_Witness ==
  /\ pc = "respond"
  /\ convWg = 0 /\ upWg = 0
  /\ \E i \in 1..Len(convWorkers) : convWorkers[i].err
  /\ \E i, j \in 1..Len(upWorkers) :
       /\ upWorkers[i].err
       /\ ~upWorkers[j].err /\ upWorkers[j].pageNum > upWorkers[j].lastPage

\* the (page, variant) pairs of upload worker i up to and including (p, v),
\* in the order pages ascending, and normal, small, large within a page
UpTo(i, p, v) ==
  {x \in UpRange(i) \X Variants :
     UpPos(<<"put", x[1], x[2]>>) <= UpPos(<<"put", p, v>>)}

\* the store write of page p, variant v was made and succeeded
Stored(p, v) ==
  <<"put", p, v>> \in DOMAIN outcome /\ outcome[<<"put", p, v>>] = "ok"

\* C22: the store writes an upload worker has made with success are a
\* prefix of its range in the order pages ascending and normal, small,
\* large; a remote path holds a page and variant only if that write
\* succeeded; and a worker that returned on a failed upload has attempted
\* nothing after it, whatever was converted
C22_StoredPrefix ==
  \A i \in 1..Len(upWorkers) :
    /\ \A p \in UpRange(i), v \in Variants :
         /\ Stored(p, v) => \A x \in UpTo(i, p, v) : Stored(x[1], x[2])
         /\ (/\ Sprintf(s3Paths[v], p) \in DOMAIN store
             /\ store[Sprintf(s3Paths[v], p)] = [page |-> p, variant |-> v])
              => Stored(p, v)
    /\ \A c \in UpFailedOf(i) :
         \A p \in UpRange(i), v \in Variants :
           UpPos(<<"put", p, v>>) > UpPos(c)
             => /\ <<"open", p, v>> \notin DOMAIN outcome
                /\ ~Stored(p, v)

\* a worker with a two-page range returned on the first page, whose normal
\* file a failed resize had not produced; the three files of its second page
\* are there and none of them was uploaded
C22_Witness ==
  \E i \in 1..Len(upWorkers) :
    /\ upWorkers[i].at = "done"
    /\ upWorkers[i].lastPage > upWorkers[i].firstPage
    /\ upWorkers[i].pageNum = upWorkers[i].firstPage
    /\ outcome[<<"open", upWorkers[i].firstPage, "normal">>] = "fail"
    /\ \A v \in Variants :
         /\ LocalPath(v, upWorkers[i].lastPage) \in files
         /\ Sprintf(s3Paths[v], upWorkers[i].lastPage) \notin DOMAIN store
    /\ pc = "returned"


\* the run is over with the answer "Done"
Final == pc = "returned" /\ response = Succeeded

\* whether the local file of (variant, page) gets produced, from the page
\* ranges and the calls that fail alone: a worker rasterizes a page if no
\* rasterizer run of its range up to that page fails, the normal file needs
\* the large one and its resize, the small file the normal one and its resize
ProducedBy(i, v, p) ==
  /\ \A q \in convWorkers[i].firstPage..p : <<"gs", q, "large">> \notin failing
  /\ v \in {"normal", "small"} => <<"resize", p, "normal">> \notin failing
  /\ v = "small" => <<"resize", p, "small">> \notin failing

Produced(v, p) == \E i \in 1..Len(convWorkers) : p \in ConvRange(i) /\ ProducedBy(i, v, p)

\* whether the store write of (page, variant) gets made with success: every
\* upload of its worker up to it finds its file and its PutReader works
WrittenBy(i, p, v) ==
  \A x \in UpTo(i, p, v) :
    Produced(x[2], x[1]) /\ <<"put", x[1], x[2]>> \notin failing

Written == {x \in PageVariants :
              \E i \in 1..Len(upWorkers) : x[1] \in UpRange(i) /\ WrittenBy(i, x[1], x[2])}

PathOf(x) == Sprintf(s3Paths[x[2]], x[1])

\* the successful writes that go to a path, and the last of them when the
\* upload workers run one after the other in the order they were spawned
WritersOf(path) == {x \in Written : PathOf(x) = path}
LastWriter(path) ==
  CHOOSE x \in WritersOf(path) :
    \A y \in WritersOf(path) : UpPos(<<"put", y[1], y[2]>>) <= UpPos(<<"put", x[1], x[2]>>)

\* the writers of a path all belong to one upload worker
OneWorker(path) ==
  \E i \in 1..Len(upWorkers) : \A x \in WritersOf(path) : x[1] \in UpRange(i)

\* C23 as claimed: the bucket a request answered "Done" leaves behind is a
\* function of the page count, the templates and the calls that fail; the
\* run in which the upload workers run one after the other being one of the
\* interleavings, that function is the bucket this run leaves
C23_StoreDetermined ==
  Final =>
    /\ DOMAIN store = {PathOf(x) : x \in Written}
    /\ \A path \in DOMAIN store :
         store[path] = [page |-> LastWriter(path)[1], variant |-> LastWriter(path)[2]]

\* C23 amended: the set of remote paths written, and what every path
\* written by one upload worker only holds, are the same for every
\* interleaving; a path two upload workers write to holds the page and
\* variant of one of its writers
C23_StoreDeterminedPerWorker ==
  Final =>
    /\ DOMAIN store = {PathOf(x) : x \in Written}
    /\ \A path \in DOMAIN store :
         /\ <<store[path].page, store[path].variant>> \in WritersOf(path)
         /\ OneWorker(path) =>
              store[path] = [page |-> LastWriter(path)[1], variant |-> LastWriter(path)[2]]

\* a three-page request with a failed resize and a failed store write was
\* answered "Done" with some of its objects in the bucket
C23_Witness ==
  /\ Final
  /\ numPages = 3
  /\ \E c \in DOMAIN outcome : c[1] = "resize" /\ outcome[c] = "fail"
  /\ \E c \in DOMAIN outcome : c[1] = "put" /\ outcome[c] = "fail"
  /\ store # <<>>
  /\ Cardinality(DOMAIN store) < 9


\* the workers of the run with variables l that have not returned
LiveConvOf(l) == {i \in 1..Len(l.convWorkers) : l.convWorkers[i].at # "done"}
LiveUpOf(l) == {i \in 1..Len(l.upWorkers) : l.upWorkers[i].at # "done"}

\* the WaitGroups of a run count the workers of that run, and its Waits
\* return when these have returned
BarrierOwn(l) ==
  /\ l.convWg = Cardinality(LiveConvOf(l))
  /\ l.upWg = Cardinality(LiveUpOf(l))
  /\ l.pc = "convWait" => (WaitReturns(l.convWg) <=> LiveConvOf(l) = {})
  /\ l.pc = "upWait" => (WaitReturns(l.upWg) <=> LiveUpOf(l) = {})

\* the local files the conversion workers of a run have written
LocalWrites(l) ==
  {Sprintf(LocalTemplate(l.jpegPrefix, c[3]), c[2]) :
     c \in {x \in DOMAIN l.outcome : x[1] \in {"gs", "resize"} /\ l.outcome[x] = "ok"}}

\* the invocation of a run that produces the local file of (page, variant)
Producer(p, v) == <<IF v = "large" THEN "gs" ELSE "resize", p, v>>

\* `call` was made in the run and ended well
WentWell(l, call) == call \in DOMAIN l.outcome /\ l.outcome[call] = "ok"

\* every call of a run ended as the run's own calls and failures decide: an
\* invocation works unless it is one that fails or its source was not
\* produced by the run, a file opens if the run produced it, a store write
\* works unless it is one that fails
OwnOutcome(l) ==
  \A c \in DOMAIN l.outcome :
    (l.outcome[c] = "ok") <=>
      CASE c[1] = "gs" -> c \notin l.failing
        [] c[1] = "resize" ->
             /\ c \notin l.failing
             /\ WentWell(l, Producer(c[2], IF c[3] = "normal" THEN "large" ELSE "normal"))
        [] c[1] = "open" -> WentWell(l, Producer(c[2], c[3]))
        [] c[1] = "put" -> c \notin l.failing

\* the two runs drew different scratch prefixes
DistinctPrefixes == jpegPrefix # other.locals.jpegPrefix

\* C24: of two requests served at the same time, each has WaitGroups that
\* count its own workers only; a request none of whose calls hangs can
\* always take a step, whatever the other request is stuck on; and when the
\* prefixes differ no local file is written by both, every call of either
\* ends as that request's own calls decide, and a request none of whose
\* calls fails or hangs has stored every page and variant when it answers
\* "Done"
C24_RequestsIsolated ==
  other.id # 0 =>
    /\ BarrierOwn(Locals)
    /\ BarrierOwn(other.locals)
    /\ (hanging = {} /\ pc # "returned") => ENABLED Next
    /\ DistinctPrefixes =>
         /\ LocalWrites(Locals) \cap LocalWrites(other.locals) = {}
         /\ OwnOutcome(Locals)
         /\ OwnOutcome(other.locals)
         /\ (failing = {} /\ hanging = {} /\ Counted)
              => /\ response \in {<<>>, Succeeded}
                 /\ Final => \A x \in PageVariants : Stored(x[1], x[2])

\* a request all of whose calls work was answered "Done" with its three
\* objects stored, while the other request, under a different prefix, has
\* written local files and waits at its upload barrier for a worker whose
\* store write never returns
C24_Witness ==
  /\ other.id # 0
  /\ DistinctPrefixes
  /\ failing = {} /\ hanging = {}
  /\ Final
  /\ \A x \in PageVariants : Stored(x[1], x[2])
  /\ other.locals.pc = "upWait"
  /\ \E i \in LiveUpOf(other.locals) :
       LET w == other.locals.upWorkers[i]
       IN w.opened /\ <<"put", w.pageNum, w.at>> \in other.locals.hanging
  /\ LocalWrites(other.locals) # {}
  /\ LocalWrites(Locals) # {}


=============================================================================
